---- MODULE Spec2Model ----
(***************************************************************************)
(* ECDH over a prime field: prime-field arithmetic (primefield.h), point   *)
(* arithmetic, the SEC1 point strings, key-pair generation and the shared  *)
(* secret (ecdh.c).                                                        *)
(*                                                                         *)
(* GMP integers are unbounded; TLC's are 32-bit, so the two supplied       *)
(* 192-bit curves are represented by curves of the same shape over         *)
(* 11-bit primes (a = 0, b = 3 for secp192k1; a = p - 3 for secp192r1;     *)
(* prime order below p; private keys shorter than the field size).         *)
(* C strings are sequences of one-character strings.                       *)
(***************************************************************************)
EXTENDS Integers, Sequences, FiniteSets

VARIABLES
    \* field operations: modulus, operands, operation applied, result, error,
    \* and the local variables of prime_field_div while its loop runs
    f_p, f_a, f_b, f_op, f_res, f_err, f_div,
    \* point operations: curve, operand p, operation, operand q, scalar k,
    \* result
    pt_ec, pt_p, pt_op, pt_q, pt_k, pt_r,
    \* point strings: point given, string, length reported, point decoded,
    \* operation applied, error
    c_point, c_str, c_len, c_out, c_op, c_err,
    \* main: position, curve identifier, the two key pairs, the two secrets
    pc, curve, alice, bob, alice_secret, bob_secret

fieldVars == <<f_p, f_a, f_b, f_op, f_res, f_err, f_div>>
pointVars == <<pt_ec, pt_p, pt_op, pt_q, pt_k, pt_r>>
codecVars == <<c_point, c_str, c_len, c_out, c_op, c_err>>
mainVars == <<pc, curve, alice, bob, alice_secret, bob_secret>>
vars == <<fieldVars, pointVars, codecVars, mainVars>>

----------------------------------------------------------------------------
(* Bounds of the model *)

\* largest modulus the field operations are applied with
MaxP == 13

\* largest scalar the points are multiplied by
MaxK == 16

\* largest coordinate of the points that are encoded
MaxCoord == 260

\* longest payload, after the tag "04", of the strings that are decoded
MaxPayload == 4

\* largest value of a byte read from the randomness source
MaxRandom == 79

----------------------------------------------------------------------------
(* GMP string conversion *)

Digits == <<"0", "1", "2", "3", "4", "5", "6", "7", "8", "9",
            "a", "b", "c", "d", "e", "f">>

RECURSIVE digits_of(_, _)
digits_of(n, base) ==
    IF n < base THEN <<Digits[n + 1]>>
    ELSE Append(digits_of(n \div base, base), Digits[(n % base) + 1])

\* mpz_get_str(NULL, base, n): digits most significant first, lower case,
\* "0" for zero, a leading "-" for a negative number
mpz_get_str(base, n) ==
    IF n < 0 THEN <<"-">> \o digits_of(0 - n, base) ELSE digits_of(n, base)

----------------------------------------------------------------------------
(* primefield.h *)

\* prime_field_add with the upper test written > instead of >=
prime_field_add_gt(a, b, p) ==
    LET tmp == a + b IN
    IF tmp > p THEN tmp - p
    ELSE IF tmp < 0 THEN tmp + p
    ELSE tmp

prime_field_add(a, b, p) ==
    LET tmp == a + b IN
    IF tmp >= p THEN tmp - p
    ELSE IF tmp < 0 THEN tmp + p
    ELSE tmp

prime_field_sub(a, b, p) ==
    LET tmp == 0 - b IN prime_field_add(a, tmp, p)

\* the loop of prime_field_mul: i runs from the last character of bits
\* (the least significant bit) down to the first
RECURSIVE mul_loop(_, _, _, _, _)
mul_loop(bits, i, res, copy, p) ==
    IF i < 1 THEN res
    ELSE LET res1 == IF bits[i] = "1" THEN prime_field_add(res, copy, p)
                     ELSE res
         IN  mul_loop(bits, i - 1, res1, prime_field_add(copy, copy, p), p)

\* prime_field_mul with the bits of b taken most significant first
prime_field_mul_msb(a, b, p) ==
    LET bits == mpz_get_str(2, b)
        rev == [i \in 1..Len(bits) |-> bits[Len(bits) + 1 - i]]
    IN  mul_loop(rev, Len(rev), 0, a, p)

prime_field_mul(a, b, p) ==
    LET bits == mpz_get_str(2, b) IN
    mul_loop(bits, Len(bits), 0, a, p)

\* the while loop of prime_field_div; returns u at exit.  The quotient and
\* remainder are taken of the dividend a by copy_p (mpz_fdiv_qr(q, r, a,
\* copy_p)); copy_b is written but never read.
RECURSIVE div_loop(_, _, _, _, _, _)
div_loop(a, copy_p, s, t, u, v) ==
    IF copy_p = 0 THEN u
    ELSE LET q == a \div copy_p
             r == a % copy_p
         IN  div_loop(a, r, u - q * s, v - q * t, s, t)

prime_field_div(a, b, p) ==
    prime_field_mul(a, div_loop(a, p, 1, 0, 0, 1), p)

\* the local variables of prime_field_div when its loop is entered
div_init(b, p) ==
    [q |-> 0, r |-> 0, s |-> 1, t |-> 0, u |-> 0, v |-> 1,
     copy_b |-> b, copy_p |-> p]

\* one iteration of the loop without mpz_set(copy_p, r)
div_step_keep_copy_p(a, l) ==
    LET q == a \div l.copy_p
        r == a % l.copy_p
    IN  [q |-> q, r |-> r, s |-> l.u - q * l.s, t |-> l.v - q * l.t,
         u |-> l.s, v |-> l.t, copy_b |-> l.copy_p, copy_p |-> l.copy_p]

\* one iteration of the loop of prime_field_div on the local variables l
div_step(a, l) ==
    LET q == a \div l.copy_p
        r == a % l.copy_p
    IN  [q |-> q, r |-> r, s |-> l.u - q * l.s, t |-> l.v - q * l.t,
         u |-> l.s, v |-> l.t, copy_b |-> l.copy_p, copy_p |-> r]

\* the loop of prime_field_sq over the fixed bit string "10"
RECURSIVE sq_loop(_, _, _, _, _)
sq_loop(bits, i, res, copy, p) ==
    IF i < 1 THEN res
    ELSE LET res1 == IF bits[i] = "1" THEN prime_field_mul(res, copy, p)
                     ELSE res
         IN  sq_loop(bits, i - 1, res1, prime_field_mul(copy, copy, p), p)

prime_field_sq(a, p) == sq_loop(<<"1", "0">>, 2, 1, a, p)

----------------------------------------------------------------------------
(* primefield.h: scalars and strings *)

\* the terminating character of a C string
NUL == "\\0"

IsSpace(c) == c = " "

\* the value of a digit character in base 16 (both cases), 16 for any other
HexVal(c) ==
    CASE c = "0" -> 0  [] c = "1" -> 1  [] c = "2" -> 2  [] c = "3" -> 3
      [] c = "4" -> 4  [] c = "5" -> 5  [] c = "6" -> 6  [] c = "7" -> 7
      [] c = "8" -> 8  [] c = "9" -> 9
      [] c \in {"a", "A"} -> 10  [] c \in {"b", "B"} -> 11
      [] c \in {"c", "C"} -> 12  [] c \in {"d", "D"} -> 13
      [] c \in {"e", "E"} -> 14  [] c \in {"f", "F"} -> 15
      [] OTHER -> 16

RECURSIVE skip_space(_)
skip_space(str) ==
    IF str # <<>> /\ IsSpace(Head(str)) THEN skip_space(Tail(str)) ELSE str

\* the digits of str accumulated most significant first, white space skipped
RECURSIVE hex_value(_, _, _)
hex_value(str, i, acc) ==
    IF i > Len(str) THEN acc
    ELSE IF IsSpace(str[i]) THEN hex_value(str, i + 1, acc)
    ELSE hex_value(str, i + 1, 16 * acc + HexVal(str[i]))

\* mpz_init_set_str(scalar, str, 16): leading white space and one "-" are
\* accepted, the first character after them must be a digit, later white
\* space is skipped, any other character is an error.  On error the return
\* value is -1 and the scalar keeps the 0 it was initialised with.
str_to_scalar(str) ==
    LET s1 == skip_space(str)
        negative == s1 # <<>> /\ Head(s1) = "-"
        s2 == IF negative THEN Tail(s1) ELSE s1
        valid == /\ s2 # <<>>
                 /\ HexVal(Head(s2)) < 16
                 /\ \A i \in 1..Len(s2) : IsSpace(s2[i]) \/ HexVal(s2[i]) < 16
        mag == hex_value(s2, 1, 0)
    IN  IF valid THEN [rc |-> 0, scalar |-> IF negative THEN 0 - mag ELSE mag]
        ELSE [rc |-> 0 - 1, scalar |-> 0]

\* scalar_to_str: the hex string and its length without the terminator
scalar_to_str(scalar) ==
    LET str == mpz_get_str(16, scalar) IN [str |-> str, len |-> Len(str)]

----------------------------------------------------------------------------
(* ecdh.c: points *)

create_point == [x |-> 0, y |-> 0]

copy_point(point) == [x |-> point.x, y |-> point.y]

\* point_add without the test for equal x-coordinates
point_add_no_x_test(p, q, ec) ==
    IF p.x = 0 /\ p.y = 0 THEN copy_point(q)
    ELSE IF q.x = 0 /\ q.y = 0 THEN copy_point(p)
    ELSE
        LET s == prime_field_div(prime_field_sub(p.y, q.y, ec.prime),
                                 prime_field_sub(p.x, q.x, ec.prime),
                                 ec.prime)
            rx == prime_field_sub(prime_field_sq(s, ec.prime),
                                  prime_field_add(p.x, q.x, ec.prime),
                                  ec.prime)
            ry == prime_field_sub(
                      prime_field_mul(s, prime_field_sub(p.x, rx, ec.prime),
                                      ec.prime),
                      p.y, ec.prime)
        IN  [x |-> rx, y |-> ry]

point_add(p, q, ec) ==
    IF p.x = 0 /\ p.y = 0 THEN copy_point(q)
    ELSE IF q.x = 0 /\ q.y = 0 THEN copy_point(p)
    ELSE IF p.x = q.x THEN create_point
    ELSE
        LET x_delta == prime_field_sub(p.x, q.x, ec.prime)
            y_delta == prime_field_sub(p.y, q.y, ec.prime)
            s == prime_field_div(y_delta, x_delta, ec.prime)
            s_sq == prime_field_sq(s, ec.prime)
            x_sum == prime_field_add(p.x, q.x, ec.prime)
            rx == prime_field_sub(s_sq, x_sum, ec.prime)
            tmp1 == prime_field_sub(p.x, rx, ec.prime)
            tmp2 == prime_field_mul(s, tmp1, ec.prime)
            ry == prime_field_sub(tmp2, p.y, ec.prime)
        IN  [x |-> rx, y |-> ry]

point_double(p, ec) ==
    LET px_sq == prime_field_sq(p.x, ec.prime)
        px_sq3 == prime_field_mul(px_sq, 3, ec.prime)
        sum == prime_field_add(px_sq3, ec.a, ec.prime)
        px_2 == prime_field_mul(p.x, 2, ec.prime)
        py_2 == prime_field_mul(p.y, 2, ec.prime)
        s == prime_field_div(sum, py_2, ec.prime)
        s_sq == prime_field_sq(s, ec.prime)
        rx == prime_field_sub(s_sq, px_2, ec.prime)
        tmp1 == prime_field_sub(p.x, rx, ec.prime)
        tmp2 == prime_field_mul(s, tmp1, ec.prime)
        ry == prime_field_sub(tmp2, p.y, ec.prime)
    IN  [x |-> rx, y |-> ry]

\* the loop of scalar_mult: i runs from the last character of val_str (the
\* least significant bit of k) down to the first
\* (TLC passes operator arguments unevaluated; ByValue has the points of one
\* iteration computed before the next one starts, as the C variables are.)
ByValue(v, e) == IF v = v THEN e ELSE e

RECURSIVE scalar_mult_loop(_, _, _, _, _)
scalar_mult_loop(val_str, i, res, p_copy, ec) ==
    IF i < 1 THEN res
    ELSE LET tmp1 == IF val_str[i] = "1" THEN point_add(p_copy, res, ec)
                     ELSE res
             tmp2 == point_double(p_copy, ec)
         IN  ByValue(<<tmp1, tmp2>>,
                     scalar_mult_loop(val_str, i - 1, tmp1, tmp2, ec))

\* scalar_mult with the accumulator starting as a copy of p
scalar_mult_from_p(p, k, ec) ==
    LET val_str == mpz_get_str(2, k) IN
    scalar_mult_loop(val_str, Len(val_str), copy_point(p), copy_point(p), ec)

scalar_mult(p, k, ec) ==
    LET val_str == mpz_get_str(2, k) IN
    scalar_mult_loop(val_str, Len(val_str), create_point, copy_point(p), ec)

----------------------------------------------------------------------------
(* ecdh.c: point strings *)

\* str_to_point with y read from str[len/2 ..), one character early
str_to_point_y_early(str) ==
    LET len == Len(str)
        half == len \div 2
        str_end_idx == half - 1
        x == [i \in 1..str_end_idx |-> str[i + 2]]
        y == [i \in 1..str_end_idx |-> str[i + half]]
    IN  [x |-> str_to_scalar(x).scalar, y |-> str_to_scalar(y).scalar]

\* str_to_point: x is str[2 .. 2 + e) and y is str[1 + len/2 .. 1 + len/2 + e)
\* with e = len/2 - 1 (C indices); the results of str_to_scalar are not
\* looked at.  For len < 2 the code writes x[-1]; see DecodeShort.
str_to_point(str) ==
    LET len == Len(str)
        half == len \div 2
        str_end_idx == half - 1
        x == [i \in 1..str_end_idx |-> str[i + 2]]
        y == [i \in 1..str_end_idx |-> str[i + 1 + half]]
    IN  [x |-> str_to_scalar(x).scalar, y |-> str_to_scalar(y).scalar]

\* strncpy(&dst[off], src, n) on a zero-based buffer
strncpy(dst, off, src, n) ==
    [i \in DOMAIN dst |->
        IF i >= off /\ i < off + n
        THEN (IF i - off + 1 <= Len(src) THEN src[i - off + 1] ELSE NUL)
        ELSE dst[i]]

\* the characters of a zero-based buffer before its first NUL
RECURSIVE c_string(_, _)
c_string(buf, i) ==
    IF i \notin DOMAIN buf \/ buf[i] = NUL THEN <<>>
    ELSE <<buf[i]>> \o c_string(buf, i + 1)

\* point_to_str without the padding: "04", hex(x), hex(y)
point_to_str_unpadded(point) ==
    LET str == <<"0", "4">> \o scalar_to_str(point.x).str
                            \o scalar_to_str(point.y).str
    IN  [str |-> str, len |-> Len(str)]

\* point_to_str: the buffer is calloc'ed, the shorter of the two hex strings
\* is preceded by diff characters '0', *len is strlen of the result
point_to_str(point) ==
    LET xs == scalar_to_str(point.x)
        ys == scalar_to_str(point.y)
        x_len == xs.len
        y_len == ys.len
        diff == IF x_len < y_len THEN y_len - x_len
                ELSE IF y_len < x_len THEN x_len - y_len
                ELSE 0
        x_off == IF x_len < y_len THEN 2 + diff ELSE 2
        y_off == IF y_len < x_len THEN diff ELSE 0
        fill_lo == IF x_len < y_len THEN 2 ELSE x_len + 2
        size == 3 + x_len + y_len + diff
        res0 == [i \in 0..(size - 1) |->
                    IF diff > 0 /\ i >= fill_lo /\ i < fill_lo + diff
                    THEN "0" ELSE NUL]
        res1 == [res0 EXCEPT ![0] = "0", ![1] = "4"]
        res2 == strncpy(res1, x_off, xs.str, x_len)
        res3 == strncpy(res2, x_off + y_off + x_len, ys.str, y_len)
        str == c_string(res3, 0)
    IN  [str |-> str, len |-> Len(str)]

----------------------------------------------------------------------------
(* ecdh.c: curves.  The supplied curves with their 192-bit parameters      *)
(* replaced by 11-bit ones of the same shape; G is given as a point string *)
(* and decoded with str_to_point, as in the code.                          *)

\* secp192k1: a = 0, b = 3, cofactor 1
get_secp192k1_curve ==
    [prime |-> str_to_scalar(<<"4", "c", "f">>).scalar,
     a |-> 0,
     b |-> 3,
     G |-> str_to_point(<<"0", "4", "1", "0", "1", "2", "4", "4">>),
     order |-> str_to_scalar(<<"4", "b", "d">>).scalar,
     cofactor |-> 1,
     key_size_bits |-> 8]

\* secp192r1: a = p - 3, upper-case hex literals, cofactor 1
get_secp192r1_curve ==
    [prime |-> str_to_scalar(<<"4", "3", "F">>).scalar,
     a |-> str_to_scalar(<<"4", "3", "C">>).scalar,
     b |-> str_to_scalar(<<"5">>).scalar,
     G |-> str_to_point(<<"0", "4", "1", "0", "1", "1", "B", "7">>),
     order |-> str_to_scalar(<<"4", "1", "B">>).scalar,
     cofactor |-> 1,
     key_size_bits |-> 8]

\* enum Curves
Curves == {"SECP_192_K1", "SECP_192_R1"}

----------------------------------------------------------------------------
(* ecdh.c: key pairs *)

\* mpz_import(rop, count, 1, 1, 1, 0, buf): the bytes of buf, most
\* significant first
RECURSIVE mpz_import(_, _, _)
mpz_import(buf, i, acc) ==
    IF i > Len(buf) THEN acc ELSE mpz_import(buf, i + 1, 256 * acc + buf[i])

\* gen_key_pair with buf the bytes read from /dev/urandom
gen_key_pair(curve_id, buf) ==
    LET ec == IF curve_id = "SECP_192_R1" THEN get_secp192r1_curve
              ELSE get_secp192k1_curve
        private == mpz_import(buf, 1, 0)
        public_key == scalar_mult(ec.G, private, ec)
    IN  [private |-> private,
         public |-> point_to_str(public_key).str,
         ec |-> ec]

get_secret(key_pair, peer) ==
    LET peer_point == str_to_point(peer)
        res_point == scalar_mult(peer_point, key_pair.private, key_pair.ec)
    IN  point_to_str(res_point)

----------------------------------------------------------------------------
(* Values of the variables a specification does not use *)

NoKey == [private |-> 0, public |-> <<>>, ec |-> get_secp192k1_curve]
NoSecret == [str |-> <<>>, len |-> 0]

FieldIdle ==
    /\ f_p = 1 /\ f_a = 0 /\ f_b = 0
    /\ f_op = "idle" /\ f_res = 0 /\ f_err = "none"
    /\ f_div = div_init(0, 1)

PointIdle ==
    /\ pt_ec = get_secp192k1_curve /\ pt_p = create_point
    /\ pt_op = "idle" /\ pt_q = create_point /\ pt_k = 0
    /\ pt_r = create_point

CodecIdle ==
    /\ c_point = create_point /\ c_str = <<>> /\ c_len = 0
    /\ c_out = create_point /\ c_op = "idle" /\ c_err = "none"

MainIdle ==
    /\ pc = "idle" /\ curve = "SECP_192_K1"
    /\ alice = NoKey /\ bob = NoKey
    /\ alice_secret = NoSecret /\ bob_secret = NoSecret

----------------------------------------------------------------------------
(* Field operations applied to every modulus and every pair of elements *)

FieldInit ==
    /\ f_p \in 1..MaxP
    /\ f_a \in 0..(f_p - 1)
    /\ f_b \in 0..(f_p - 1)
    /\ f_op = "init"
    /\ f_res = 0
    /\ f_err = "none"
    /\ f_div = div_init(f_b, f_p)
    /\ PointIdle /\ CodecIdle /\ MainIdle

FieldDone(op, r) ==
    /\ f_op = "init"
    /\ f_op' = op
    /\ f_res' = r
    /\ UNCHANGED <<f_p, f_a, f_b, f_div>>
    /\ UNCHANGED <<pointVars, codecVars, mainVars>>

FieldAdd == FieldDone("add", prime_field_add(f_a, f_b, f_p)) /\ UNCHANGED f_err

FieldSub == FieldDone("sub", prime_field_sub(f_a, f_b, f_p)) /\ UNCHANGED f_err

\* add followed by sub of the same b
FieldAddSub ==
    /\ FieldDone("addsub",
                 prime_field_sub(prime_field_add(f_a, f_b, f_p), f_b, f_p))
    /\ UNCHANGED f_err

FieldMul == FieldDone("mul", prime_field_mul(f_a, f_b, f_p)) /\ UNCHANGED f_err

FieldSq == FieldDone("sq", prime_field_sq(f_a, f_p)) /\ UNCHANGED f_err

\* prime_field_div is void and has no failure path: it always stores a
\* value in res
FieldDiv ==
    /\ FieldDone("div", prime_field_div(f_a, f_b, f_p))
    /\ f_err' = "none"

\* a times the inverse of a: mul(a, div(1, a, p), p)
FieldInv ==
    /\ FieldDone("inv",
                 prime_field_mul(f_a, prime_field_div(1, f_a, f_p), f_p))
    /\ f_err' = "none"

FieldNext ==
    \/ FieldAdd
    \/ FieldSub
    \/ FieldAddSub
    \/ FieldMul
    \/ FieldSq
    \/ FieldDiv
    \/ FieldInv

SpecField == FieldInit /\ [][FieldNext]_vars

----------------------------------------------------------------------------
(* prime_field_div one loop iteration at a time *)

DivInit ==
    /\ f_p \in 1..MaxP
    /\ f_a \in 0..(f_p - 1)
    /\ f_b \in 0..(f_p - 1)
    /\ f_op = "div_loop"
    /\ f_res = 0
    /\ f_err = "none"
    /\ f_div = div_init(f_b, f_p)
    /\ PointIdle /\ CodecIdle /\ MainIdle

\* the body of while (mpz_cmp_ui(copy_p, 0UL) != 0)
DivStep ==
    /\ f_op = "div_loop"
    /\ f_div.copy_p # 0
    /\ f_div' = div_step(f_a, f_div)
    /\ UNCHANGED <<f_p, f_a, f_b, f_op, f_res, f_err>>
    /\ UNCHANGED <<pointVars, codecVars, mainVars>>

\* the loop is left, a is multiplied by u and the function returns
DivExit ==
    /\ f_op = "div_loop"
    /\ f_div.copy_p = 0
    /\ f_res' = prime_field_mul(f_a, f_div.u, f_p)
    /\ f_op' = "div_done"
    /\ UNCHANGED <<f_p, f_a, f_b, f_err, f_div>>
    /\ UNCHANGED <<pointVars, codecVars, mainVars>>

DivNext ==
    \/ DivStep
    \/ DivExit

\* the function runs in one thread with nothing to wait for: a step that
\* can be taken is taken
SpecDiv == DivInit /\ [][DivNext]_vars /\ WF_vars(DivNext)

----------------------------------------------------------------------------
(* Point operations applied to the points of small curves and to the       *)
(* generators of the supplied curves                                       *)

\* y^2 = x^3 + 3 over GF(7): 13 points, generator (1, 2) of order 13
TestCurveK ==
    [prime |-> 7, a |-> 0, b |-> 3, G |-> [x |-> 1, y |-> 2],
     order |-> 13, cofactor |-> 1, key_size_bits |-> 8]

\* y^2 = x^3 - 3x + 7 over GF(13): 14 points, (5, 0) has order 2,
\* generator (2, 3) of order 7
TestCurveR ==
    [prime |-> 13, a |-> 10, b |-> 7, G |-> [x |-> 2, y |-> 3],
     order |-> 7, cofactor |-> 2, key_size_bits |-> 8]

\* y^2 = x^3 + 3 over GF(11): 12 points, (2, 0) has order 2,
\* generator (0, 5) of order 3
TestCurveE ==
    [prime |-> 11, a |-> 0, b |-> 3, G |-> [x |-> 0, y |-> 5],
     order |-> 3, cofactor |-> 4, key_size_bits |-> 8]

TestCurves == {TestCurveK, TestCurveR, TestCurveE}

SuppliedCurves == {get_secp192k1_curve, get_secp192r1_curve}

IsIdentity(point) == point.x = 0 /\ point.y = 0

\* y^2 = x^3 + a x + b (mod p), in plain integer arithmetic
OnCurve(point, ec) ==
    (point.y * point.y) % ec.prime
        = (point.x * point.x * point.x + ec.a * point.x + ec.b) % ec.prime

Negate(point, ec) ==
    [x |-> point.x, y |-> (ec.prime - point.y) % ec.prime]

\* the points the operations are applied to: every pair of field elements
\* of a small curve; the generator, its negative and the identity of a
\* supplied curve
Operands(ec) ==
    IF ec \in TestCurves
    THEN [x : 0..(ec.prime - 1), y : 0..(ec.prime - 1)]
    ELSE {ec.G, Negate(ec.G, ec), create_point}

PointInit ==
    /\ pt_ec \in TestCurves \cup SuppliedCurves
    /\ pt_p \in Operands(pt_ec)
    /\ pt_op = "init"
    /\ pt_q = create_point
    /\ pt_k = 0
    /\ pt_r = create_point
    /\ FieldIdle /\ CodecIdle /\ MainIdle

PointAdd ==
    /\ pt_op = "init"
    /\ \E q \in Operands(pt_ec) :
          /\ pt_q' = q
          /\ pt_r' = point_add(pt_p, q, pt_ec)
    /\ pt_op' = "add"
    /\ UNCHANGED <<pt_ec, pt_p, pt_k>>
    /\ UNCHANGED <<fieldVars, codecVars, mainVars>>

PointDouble ==
    /\ pt_op = "init"
    /\ pt_r' = point_double(pt_p, pt_ec)
    /\ pt_op' = "double"
    /\ UNCHANGED <<pt_ec, pt_p, pt_q, pt_k>>
    /\ UNCHANGED <<fieldVars, codecVars, mainVars>>

ScalarMult ==
    /\ pt_op = "init"
    /\ \E k \in 0..MaxK :
          /\ pt_k' = k
          /\ pt_r' = scalar_mult(pt_p, k, pt_ec)
    /\ pt_op' = "mul"
    /\ UNCHANGED <<pt_ec, pt_p, pt_q>>
    /\ UNCHANGED <<fieldVars, codecVars, mainVars>>

PointNext ==
    \/ PointAdd
    \/ PointDouble
    \/ ScalarMult

SpecPoint == PointInit /\ [][PointNext]_vars

----------------------------------------------------------------------------
(* Point strings: points encoded and decoded again, and strings decoded *)

InputChars == {"0", "1", "a", "F", "g", " "}

RECURSIVE StringsOver(_, _)
StringsOver(chars, n) ==
    IF n = 0 THEN {<<>>}
    ELSE LET shorter == StringsOver(chars, n - 1) IN
         shorter \cup {Append(s, c) : s \in {t \in shorter : Len(t) = n - 1},
                                      c \in chars}

\* the strings given to str_to_point: the tag "04" and a payload, and the
\* strings shorter than the tag
InputStrings ==
    {<<"0", "4">> \o s : s \in StringsOver(InputChars, MaxPayload)}
        \cup {<<>>, <<"0">>}

CodecInit ==
    /\ \/ /\ c_op = "point"
          /\ c_point \in [x : 0..MaxCoord, y : 0..MaxCoord]
          /\ c_str = <<>>
       \/ /\ c_op = "string"
          /\ c_point = create_point
          /\ c_str \in InputStrings
    /\ c_len = 0
    /\ c_out = create_point
    /\ c_err = "none"
    /\ FieldIdle /\ PointIdle /\ MainIdle

Encode ==
    /\ c_op = "point"
    /\ LET r == point_to_str(c_point) IN
          /\ c_str' = r.str
          /\ c_len' = r.len
    /\ c_op' = "encoded"
    /\ UNCHANGED <<c_point, c_out, c_err>>
    /\ UNCHANGED <<fieldVars, pointVars, mainVars>>

\* str_to_point has no failure path: it always returns a Point
Decode ==
    /\ c_op \in {"encoded", "string"}
    /\ Len(c_str) >= 2
    /\ c_out' = str_to_point(c_str)
    /\ c_err' = "none"
    /\ c_op' = IF c_op = "encoded" THEN "roundtrip" ELSE "decoded"
    /\ UNCHANGED <<c_point, c_str, c_len>>
    /\ UNCHANGED <<fieldVars, pointVars, mainVars>>

\* strlen(str) < 2: str_end_idx is -1 and the terminators are written at
\* x[-1] and y[-1], before the start of two zero-size allocations.  The
\* build either goes on with two empty strings, which str_to_scalar turns
\* into (0, 0), or the corrupted heap stops the process.
DecodeShort ==
    /\ c_op = "string"
    /\ Len(c_str) < 2
    /\ \/ c_out' = str_to_point(c_str) /\ c_err' = "none"
       \/ c_out' = create_point /\ c_err' = "crash"
    /\ c_op' = "undefined"
    /\ UNCHANGED <<c_point, c_str, c_len>>
    /\ UNCHANGED <<fieldVars, pointVars, mainVars>>

CodecNext ==
    \/ Encode
    \/ Decode
    \/ DecodeShort

SpecCodec == CodecInit /\ [][CodecNext]_vars

----------------------------------------------------------------------------
(* main: two key pairs on one curve, the two secrets, the comparison *)

\* the buffers fread returns from /dev/urandom: n bytes, each at most
\* MaxRandom
RandomBytes(n) == [1..n -> 0..MaxRandom]

Init ==
    /\ pc = "start"
    /\ curve \in Curves
    /\ alice = NoKey
    /\ bob = NoKey
    /\ alice_secret = NoSecret
    /\ bob_secret = NoSecret
    /\ FieldIdle /\ PointIdle /\ CodecIdle

KeySizeBytes(curve_id) ==
    (IF curve_id = "SECP_192_R1" THEN get_secp192r1_curve
     ELSE get_secp192k1_curve).key_size_bits \div 8

GenAlice ==
    /\ pc = "start"
    /\ \E buf \in RandomBytes(KeySizeBytes(curve)) :
          alice' = gen_key_pair(curve, buf)
    /\ pc' = "alice_ready"
    /\ UNCHANGED <<curve, bob, alice_secret, bob_secret>>
    /\ UNCHANGED <<fieldVars, pointVars, codecVars>>

GenBob ==
    /\ pc = "alice_ready"
    /\ \E buf \in RandomBytes(KeySizeBytes(curve)) :
          bob' = gen_key_pair(curve, buf)
    /\ pc' = "bob_ready"
    /\ UNCHANGED <<curve, alice, alice_secret, bob_secret>>
    /\ UNCHANGED <<fieldVars, pointVars, codecVars>>

SecretAlice ==
    /\ pc = "bob_ready"
    /\ alice_secret' = get_secret(alice, bob.public)
    /\ pc' = "alice_secret"
    /\ UNCHANGED <<curve, alice, bob, bob_secret>>
    /\ UNCHANGED <<fieldVars, pointVars, codecVars>>

SecretBob ==
    /\ pc = "alice_secret"
    /\ bob_secret' = get_secret(bob, alice.public)
    /\ pc' = "bob_secret"
    /\ UNCHANGED <<curve, alice, bob, alice_secret>>
    /\ UNCHANGED <<fieldVars, pointVars, codecVars>>

\* the asserts of main: equal lengths, then equal characters
Compare ==
    /\ pc = "bob_secret"
    /\ pc' = IF /\ alice_secret.len = bob_secret.len
                /\ \A i \in 1..alice_secret.len :
                      alice_secret.str[i] = bob_secret.str[i]
             THEN "exit" ELSE "abort"
    /\ UNCHANGED <<curve, alice, bob, alice_secret, bob_secret>>
    /\ UNCHANGED <<fieldVars, pointVars, codecVars>>

Next ==
    \/ GenAlice
    \/ GenBob
    \/ SecretAlice
    \/ SecretBob
    \/ Compare

Spec == Init /\ [][Next]_vars

----------------------------------------------------------------------------
(* Properties of the field operations, under SpecField *)

IsPrime(n) == n > 1 /\ \A d \in 2..(n - 1) : n % d # 0

\* C2: for every prime p and every a with 0 < a < p,
\* prime_field_mul(a, prime_field_div(1, a, p), p) is 1.
CX_C2 ==
    (f_op = "inv" /\ IsPrime(f_p) /\ f_a > 0 /\ f_a < f_p) => f_res = 1

\* C5: for a, b in [0, p) the results of prime_field_add and prime_field_sub
\* lie in [0, p), and subtracting b from the sum of a and b gives a again.
Thm_C5 ==
    /\ f_op \in {"add", "sub"} => (f_res >= 0 /\ f_res < f_p)
    /\ f_op = "addsub" => f_res = f_a

\* the sum a + b wraps around p and the difference comes back to a
Wit_C5 == f_op = "addsub" /\ f_a + f_b >= f_p /\ f_b > 0 /\ f_res = f_a

\* C8: prime_field_div(a, b, p) with b congruent to 0 modulo p ends with the
\* error DivisionByZero, and not with a field element (stated here for the
\* prime moduli).
CX_C8 ==
    (f_op = "div" /\ IsPrime(f_p) /\ f_b % f_p = 0)
        => f_err = "DivisionByZero"

\* C14: for a, b in [0, p) prime_field_mul(a, b, p) is (a * b) mod p, and
\* prime_field_sq(a, p) is the value of prime_field_mul(a, a, p).
Thm_C14 ==
    /\ f_op = "mul" => f_res = (f_a * f_b) % f_p
    /\ f_op = "sq" => (/\ f_res = prime_field_mul(f_a, f_a, f_p)
                       /\ f_res = (f_a * f_a) % f_p)

\* a product that is reduced several times: 7 * 11 = 77 = 12 (mod 13)
Wit_C14 ==
    f_op = "mul" /\ f_p = 13 /\ f_a = 7 /\ f_b = 11 /\ f_res = 12

----------------------------------------------------------------------------
(* Termination of the field division, under SpecDiv *)

\* C15: for every modulus p > 0 and every a, b in [0, p), b = 0 and a = 0
\* included, the loop of prime_field_div reaches copy_p = 0 and the function
\* returns (with the value of prime_field_div).
Thm_C15 ==
    /\ (f_op = "div_loop") ~> (f_op = "div_done" /\ f_div.copy_p = 0)
    /\ [](f_op = "div_done" => f_res = prime_field_div(f_a, f_b, f_p))

\* the division 0 / 0 has returned, after one iteration
Wit_C15 ==
    /\ f_op = "div_done"
    /\ f_p = 13 /\ f_a = 0 /\ f_b = 0
    /\ f_div.copy_p = 0
    /\ f_div.copy_b = 13

----------------------------------------------------------------------------
(* Properties of the point operations, under SpecPoint *)

\* k applications of point_add with p, starting from the identity
RECURSIVE naive_mult(_, _, _)
naive_mult(p, k, ec) ==
    IF k = 0 THEN create_point
    ELSE point_add(naive_mult(p, k - 1, ec), p, ec)

\* C3: for a non-identity point P of the curve and 1 <= k < order,
\* scalar_mult(P, k, curve) is the result of k applications of point_add
\* with P.
CX_C3 ==
    (/\ pt_op = "mul"
     /\ ~IsIdentity(pt_p)
     /\ OnCurve(pt_p, pt_ec)
     /\ pt_k >= 1
     /\ pt_k < pt_ec.order)
        => pt_r = naive_mult(pt_p, pt_k, pt_ec)

\* C6 as stated: for the generator G of a supplied curve, scalar_mult(G, 2,
\* curve), point_add(G, G, curve) and point_double(G, curve) are the same
\* point.
CX_C6 ==
    (pt_ec \in SuppliedCurves /\ pt_p = pt_ec.G) =>
        /\ (pt_op = "mul" /\ pt_k = 2) => pt_r = point_double(pt_p, pt_ec)
        /\ (pt_op = "add" /\ pt_q = pt_p) => pt_r = point_double(pt_p, pt_ec)

\* C6 as amended: for the generator G of a curve (the supplied curves and
\* the small ones), scalar_mult(G, 2, curve) is the point point_double(G,
\* curve), and point_add(G, G, curve), whose operands have the same
\* x-coordinate, is the identity (0, 0).
Thm_C6 ==
    pt_p = pt_ec.G =>
        /\ (pt_op = "mul" /\ pt_k = 2) => pt_r = point_double(pt_p, pt_ec)
        /\ (pt_op = "add" /\ pt_q = pt_p) => IsIdentity(pt_r)

\* G of secp192k1 added to itself: the identity, which the double of G is not
Wit_C6 ==
    /\ pt_ec = get_secp192k1_curve
    /\ pt_p = pt_ec.G
    /\ pt_op = "add"
    /\ pt_q = pt_p
    /\ IsIdentity(pt_r)
    /\ ~IsIdentity(point_double(pt_p, pt_ec))

\* C7: scalar_mult(P, 0, curve) is the identity for every point P, and
\* scalar_mult(identity, k, curve) is the identity for every k >= 0; the
\* double of the identity is the identity.
Thm_C7 ==
    /\ (pt_op = "mul" /\ pt_k = 0) => IsIdentity(pt_r)
    /\ (pt_op = "mul" /\ IsIdentity(pt_p)) => IsIdentity(pt_r)
    /\ (pt_op = "double" /\ IsIdentity(pt_p)) => IsIdentity(pt_r)

\* the identity multiplied by a scalar with several bits set
Wit_C7 ==
    /\ pt_op = "mul"
    /\ IsIdentity(pt_p)
    /\ pt_k = 5
    /\ pt_ec = get_secp192r1_curve
    /\ IsIdentity(pt_r)

\* C10: point_double of a non-identity point with y = 0 is the identity
\* (stated here for the points of the curve).
CX_C10 ==
    (/\ pt_op = "double"
     /\ ~IsIdentity(pt_p)
     /\ OnCurve(pt_p, pt_ec)
     /\ pt_p.y = 0)
        => IsIdentity(pt_r)

\* the identity or a point of the curve
InGroup(point, ec) == IsIdentity(point) \/ OnCurve(point, ec)

\* C13: when the inputs are points of the curve, every non-identity point
\* returned by point_add (for distinct inputs), point_double and scalar_mult
\* satisfies y^2 = x^3 + a x + b (mod p).
CX_C13 ==
    (/\ InGroup(pt_p, pt_ec)
     /\ \/ pt_op = "add" /\ InGroup(pt_q, pt_ec) /\ pt_q # pt_p
        \/ pt_op = "double"
        \/ pt_op = "mul"
     /\ ~IsIdentity(pt_r))
        => OnCurve(pt_r, pt_ec)

----------------------------------------------------------------------------
(* Properties of the point strings, under SpecCodec *)

\* C4: for a non-identity point P, str_to_point(point_to_str(P)) has the x
\* and the y of P, whatever the lengths of their hex strings.
Thm_C4 ==
    (c_op = "roundtrip" /\ ~IsIdentity(c_point))
        => (c_out.x = c_point.x /\ c_out.y = c_point.y)

\* x has one hex digit and y three: x is preceded by two characters '0'
Wit_C4 ==
    /\ c_op = "roundtrip"
    /\ c_point.x > 0 /\ c_point.x < 16
    /\ c_point.y > 255
    /\ c_len = 8
    /\ c_out = c_point

\* the length is 2 + 2n and every character is a hex digit
WellFormed(str) ==
    /\ Len(str) >= 2
    /\ Len(str) % 2 = 0
    /\ \A i \in 1..Len(str) : HexVal(str[i]) < 16

\* C9: str_to_point of a string whose length is not 2 + 2n, or that holds a
\* character that is no hex digit, ends with the error MalformedEncoding and
\* returns no Point (stated here for the strings of two characters or more,
\* where the behaviour of the code is defined).
CX_C9 ==
    (c_op = "decoded" /\ ~WellFormed(c_str)) => c_err = "MalformedEncoding"

\* str preceded by characters '0' up to the length n
PadLeft(str, n) ==
    [i \in 1..n |-> IF i <= n - Len(str) THEN "0"
                    ELSE str[i - (n - Len(str))]]

\* C12: for every point (x, y) the result of point_to_str is "04", hex(x)
\* and hex(y), each preceded by characters '0' up to the length L of the
\* longer of the two; the length is 2 + 2L and *len is that length.
Thm_C12 ==
    c_op \in {"encoded", "roundtrip"} =>
        LET hx == mpz_get_str(16, c_point.x)
            hy == mpz_get_str(16, c_point.y)
            L == IF Len(hx) > Len(hy) THEN Len(hx) ELSE Len(hy)
        IN  /\ c_str = <<"0", "4">> \o PadLeft(hx, L) \o PadLeft(hy, L)
            /\ Len(c_str) = 2 + 2 * L
            /\ c_len = Len(c_str)

\* x has three hex digits and y one: y is preceded by two characters '0'
Wit_C12 ==
    /\ c_op = "encoded"
    /\ c_point.x > 255
    /\ c_point.y > 0 /\ c_point.y < 16
    /\ c_len = 8
    /\ c_str[6] = "0" /\ c_str[7] = "0"

----------------------------------------------------------------------------
(* Properties of the key agreement, under Spec *)

\* C1: for two key pairs generated on the same curve, get_secret(A,
\* B.public) and get_secret(B, A.public) have the same length and the same
\* characters; the asserts of main hold.
Thm_C1 ==
    /\ pc \in {"bob_secret", "exit", "abort"}
          => /\ alice_secret.len = bob_secret.len
             /\ alice_secret.str = bob_secret.str
    /\ pc # "abort"

\* two different private keys, two different public keys, and a common
\* secret that is not the string of the identity
Wit_C1 ==
    /\ pc = "exit"
    /\ alice.private > 1
    /\ bob.private > alice.private
    /\ alice.public # bob.public
    /\ alice_secret.len = 8
    /\ alice_secret.str = bob_secret.str

\* C11: every key pair returned by gen_key_pair has a private scalar d with
\* 0 < d < n, n the order of the generator of its curve.
CX_C11 ==
    /\ pc # "start"
          => (alice.private > 0 /\ alice.private < alice.ec.order)
    /\ pc \notin {"start", "alice_ready"}
          => (bob.private > 0 /\ bob.private < bob.ec.order)

====
